---- MODULE Spec2Model ----
(***************************************************************************)
(* Schema materializer and data loader of data-explorer-hub:               *)
(*   backend/app/services/postgres.py  PostgresService                     *)
(*   backend/app/main.py               migrate_files (POST /api/migrate)   *)
(*                                                                         *)
(* DDL text is a sequence of tokens: words, punctuation, the double quote  *)
(* and the newline.  Tokens on one line are separated by blanks, so a      *)
(* regular expression's \s+ and \s* stand for "zero or more NL tokens".    *)
(* The PostgreSQL server behind psycopg2 is modelled by ExecCreate,        *)
(* ExecAlter and ExecInsert: one transaction per connection, a failed      *)
(* statement aborts the transaction, COMMIT of an aborted transaction      *)
(* rolls back.                                                             *)
(***************************************************************************)
EXTENDS Naturals, Sequences, FiniteSets, TLC

\* ------------------------------------------------------------------ bounds
\* the most FOREIGN KEY clauses in one generated CREATE TABLE statement
MaxFKs == 2

\* ------------------------------------------------------------------ tokens
NL == "\n"
DQ == "\""
Punct == {NL, DQ, "(", ")", ",", ";"}

\* \w+ : a run of word characters is one token that is not punctuation
IsWord(t) == t \notin Punct

\* the first index >= i of s that holds no NL token (\s*); Len(s)+1 at the end
RECURSIVE SkipWs(_, _)
SkipWs(s, i) ==
    IF i <= Len(s) /\ s[i] = NL THEN SkipWs(s, i + 1) ELSE i

\* the literal words lits, blanks or newlines between them, matched at s[i]:
\* the index after the last one, or 0 when there is no match
RECURSIVE MatchLits(_, _, _)
MatchLits(s, i, lits) ==
    IF lits = <<>> \/ i = 0 THEN i
    ELSE IF i <= Len(s) /\ s[i] = Head(lits)
         THEN IF Len(lits) = 1 THEN i + 1
              ELSE MatchLits(s, SkipWs(s, i + 1), Tail(lits))
         ELSE 0

\* str.strip(): leading and trailing whitespace removed
RECURSIVE StripLeft(_)
StripLeft(s) == IF s # <<>> /\ Head(s) = NL THEN StripLeft(Tail(s)) ELSE s

RECURSIVE StripRight(_)
StripRight(s) ==
    IF s # <<>> /\ s[Len(s)] = NL THEN StripRight(SubSeq(s, 1, Len(s) - 1)) ELSE s

Strip(s) == StripRight(StripLeft(s))

\* str.strip('"'): leading and trailing double quotes removed
RECURSIVE StripQuoteLeft(_)
StripQuoteLeft(s) == IF s # <<>> /\ Head(s) = DQ THEN StripQuoteLeft(Tail(s)) ELSE s

RECURSIVE StripQuoteRight(_)
StripQuoteRight(s) ==
    IF s # <<>> /\ s[Len(s)] = DQ
    THEN StripQuoteRight(SubSeq(s, 1, Len(s) - 1)) ELSE s

StripQuotes(s) == StripQuoteRight(StripQuoteLeft(s))

\* the k-th smallest element of the finite set P of numbers
Nth(P, k) == CHOOSE p \in P : Cardinality({q \in P : q < p}) = k - 1

\* str.split(sep): the pieces of s between the sep tokens
SplitAt(s, P, n) ==
    [k \in 1..(n + 1) |->
        SubSeq(s, IF k = 1 THEN 1 ELSE Nth(P, k - 1) + 1,
                  IF k = n + 1 THEN Len(s) ELSE Nth(P, k) - 1)]

SplitOn(s, P) == SplitAt(s, P, Cardinality(P))

Split(s, sep) == SplitOn(s, {i \in 1..Len(s) : s[i] = sep})

\* '\n'.join(lines)
RECURSIVE JoinLines(_)
JoinLines(ls) ==
    IF ls = <<>> THEN <<>>
    ELSE IF Len(ls) = 1 THEN ls[1]
         ELSE ls[1] \o <<NL>> \o JoinLines(Tail(ls))

\* ' '.join(stmt.split()): every run of whitespace becomes one blank
NormalizeWs(s) == SelectSeq(s, LAMBDA t : t # NL)

RECURSIVE Reverse(_)
Reverse(s) == IF s = <<>> THEN <<>> ELSE Append(Reverse(Tail(s)), Head(s))

RECURSIVE Flatten(_)
Flatten(ss) == IF ss = <<>> THEN <<>> ELSE Head(ss) \o Flatten(Tail(ss))

\* the first index >= i of s that holds token t, or 0
Least(P) == IF P = {} THEN 0 ELSE CHOOSE j \in P : \A k \in P : j <= k

IndexOf(s, t, i) == Least({j \in i..Len(s) : s[j] = t})

\* ------------------------------------------- PostgresService, DDL parsing
\* A match is [end, ...]: end is the index after the match, 0 for no match.
\* Positions are threaded through the matchers; position 0 means that the part
\* before has already failed.
NoMatch == [end |-> 0]

\* \s* after position i
Ws(s, i) == IF i = 0 THEN 0 ELSE SkipWs(s, i)

\* the literal token t at s[i]
Lit(s, i, t) == IF i # 0 /\ i <= Len(s) /\ s[i] = t THEN i + 1 ELSE 0

\* (\w+) at s[i]
WordAt(s, i) == i # 0 /\ i <= Len(s) /\ IsWord(s[i])

\* the group (\w+) matched at s[w], w = 0 when it did not match
NameMatch(s, w) == IF w = 0 THEN NoMatch ELSE [end |-> w + 1, name |-> s[w]]

\* (?:IF\s+NOT\s+EXISTS\s+)?(\w+) at s[b]: the index of the word.  The
\* optional group is tried first (c is the index after it); when (\w+) cannot
\* follow it, the group is given up and (\w+) takes the word at b.
OptionalThenWord(s, b, c) ==
    IF WordAt(s, c) THEN c ELSE IF WordAt(s, b) THEN b ELSE 0

IfNotExists(s, b) == Ws(s, MatchLits(s, b, <<"IF", "NOT", "EXISTS">>))

AfterCreateTable(s, i) == Ws(s, MatchLits(s, i, <<"CREATE", "TABLE">>))

ExtractNameFrom(s, b) == NameMatch(s, OptionalThenWord(s, b, IfNotExists(s, b)))

\* CREATE\s+TABLE\s+(?:IF\s+NOT\s+EXISTS\s+)?(\w+) tried at s[i]
ExtractNameAt(s, i) == ExtractNameFrom(s, AfterCreateTable(s, i))

\* re.findall: the matches from left to right, none overlapping (a match
\* starts at a CREATE token, so only those places are tried)
RECURSIVE FindAllNames(_, _)
FindAllNamesFrom(s, j, m) ==
    IF j = 0 THEN <<>>
    ELSE IF m.end # 0 THEN <<m.name>> \o FindAllNames(s, m.end)
    ELSE FindAllNames(s, j + 1)

FindAllNamesAt(s, j) == FindAllNamesFrom(s, j, ExtractNameAt(s, j))

FindAllNames(s, i) == FindAllNamesAt(s, IndexOf(s, "CREATE", i))

_extract_table_names(ddl) == FindAllNames(ddl, 1)

\* [""]?(\w+) at s[j]: the index of the word, or 0
QuotedWordAt(s, j) ==
    IF j # 0 /\ j + 1 <= Len(s) /\ s[j] = DQ /\ IsWord(s[j + 1]) THEN j + 1
    ELSE IF WordAt(s, j) THEN j
    ELSE 0

\* (?:IF\s+NOT\s+EXISTS\s+)?[""]?(\w+) at s[b], c the index after the group
OptionalThenQuoted(s, w1, w2) == IF w1 # 0 THEN w1 ELSE w2

TableMatchFrom(s, b) ==
    NameMatch(s, OptionalThenQuoted(s, QuotedWordAt(s, IfNotExists(s, b)),
                                    QuotedWordAt(s, b)))

\* CREATE\s+TABLE\s+(?:IF\s+NOT\s+EXISTS\s+)?[""]?(\w+)[""]? tried at s[i]
TableMatchAt(s, i) == TableMatchFrom(s, AfterCreateTable(s, i))

\* re.search: the leftmost match
RECURSIVE TableSearch(_, _)
TableSearchFrom(s, j, m) ==
    IF j = 0 THEN NoMatch
    ELSE IF m.end # 0 THEN m ELSE TableSearch(s, j + 1)

TableSearchAt(s, j) == TableSearchFrom(s, j, TableMatchAt(s, j))

TableSearch(s, i) == TableSearchAt(s, IndexOf(s, "CREATE", i))

\* \(([^)]+)\) with the ( at s[b]: the index of the ), or 0
GroupEnd(s, b, c) == IF c > b + 1 THEN c ELSE 0

ParenGroup(s, b) ==
    IF b # 0 /\ b <= Len(s) /\ s[b] = "(" THEN GroupEnd(s, b, IndexOf(s, ")", b + 1))
    ELSE 0

\* after the word at s[w], the optional closing quote [""]?
AfterQuote(s, w) ==
    IF w = 0 THEN 0 ELSE IF w + 1 <= Len(s) /\ s[w + 1] = DQ THEN w + 2 ELSE w + 1

\* fk_pattern tried at s[i]:
\*   FOREIGN\s+KEY\s*\(([^)]+)\)\s*REFERENCES\s+[""]?(\w+)[""]?\s*\(([^)]+)\)
\* b and c are the parentheses of the first group, w the referenced table, g
\* and h the parentheses of the last group.  The trailing (?:\s+ON\s+...)*
\* group only moves the place where findall resumes, and no match can start
\* inside it.
FkMatchEnd(s, b, c, w, g, h) ==
    IF h = 0 THEN NoMatch
    ELSE [end |-> h + 1, fk_col |-> SubSeq(s, b + 1, c - 1),
          ref_table |-> s[w], ref_col |-> SubSeq(s, g + 1, h - 1)]

FkMatchRefCol(s, b, c, w, g) == FkMatchEnd(s, b, c, w, g, ParenGroup(s, g))

FkMatchRef(s, b, c, w) == FkMatchRefCol(s, b, c, w, Ws(s, AfterQuote(s, w)))

FkMatchCol(s, b, c) ==
    IF c = 0 THEN NoMatch
    ELSE FkMatchRef(s, b, c, QuotedWordAt(s, Ws(s, Lit(s, Ws(s, c + 1), "REFERENCES"))))

FkMatchFrom(s, b) == FkMatchCol(s, b, ParenGroup(s, b))

FkMatchAt(s, i) == FkMatchFrom(s, Ws(s, MatchLits(s, i, <<"FOREIGN", "KEY">>)))

\* the tuple of line 49 without .strip('"'): the column texts keep their quotes
FkTupleQuoted(table_name, m) ==
    <<table_name, Strip(m.fk_col), m.ref_table, Strip(m.ref_col)>>

\* line 49: (table_name, fk_col.strip().strip('"'), ref_table,
\*           ref_col.strip().strip('"'))
FkTuple(table_name, m) ==
    <<table_name, StripQuotes(Strip(m.fk_col)), m.ref_table,
      StripQuotes(Strip(m.ref_col))>>

\* re.findall(fk_pattern, stmt), each match turned into the tuple of line 49
\* (a match starts at a FOREIGN token, so only those places are tried)
RECURSIVE FindAllFks(_, _, _)
FindAllFksFrom(s, j, m, table_name) ==
    IF j = 0 THEN <<>>
    ELSE IF m.end # 0
         THEN <<FkTuple(table_name, m)>> \o FindAllFks(s, m.end, table_name)
    ELSE FindAllFks(s, j + 1, table_name)

FindAllFksAt(s, j, table_name) == FindAllFksFrom(s, j, FkMatchAt(s, j), table_name)

FindAllFks(s, i, table_name) == FindAllFksAt(s, IndexOf(s, "FOREIGN", i), table_name)

\* re.search(r'^\s*,?\s*FOREIGN\s+KEY', line)
LineIsFk(line) ==
    MatchLits(line, IF line # <<>> /\ line[1] = "," THEN 2 ELSE 1,
              <<"FOREIGN", "KEY">>) # 0

\* lines 52-60: the statement without the lines that start a FOREIGN KEY clause
RemoveFkLines(stmt) ==
    JoinLines(SelectSeq(Split(stmt, NL), LAMBDA l : ~LineIsFk(l)))

\* re.sub(r',(\s*)\)', r'\1)', s): a comma that only whitespace separates from
\* a closing parenthesis is removed
Dangling(s, i) == s[i] = "," /\ Lit(s, SkipWs(s, i + 1), ")") # 0

FixCommas(s) ==
    LET marked == [i \in 1..Len(s) |-> IF Dangling(s, i) THEN "" ELSE s[i]]
    IN  SelectSeq(marked, LAMBDA t : t # "")

\* lines 65-68: strip, and end the statement with ) when it does not end so
EndWithClose(t) == IF t # <<>> /\ t[Len(t)] = ")" THEN t ELSE Append(t, ")")

EnsureClose(s) == EndWithClose(Strip(s))

\* lines 51-70 and 82: the statement that is sent to the server
StripStatement(stmt) == NormalizeWs(EnsureClose(FixCommas(RemoveFkLines(stmt))))

\* line 28: [s.strip() for s in ddl.split(';') if s.strip()]
StripAll(parts) == [k \in 1..Len(parts) |-> Strip(parts[k])]

Statements(ddl) == SelectSeq(StripAll(Split(ddl, ";")), LAMBDA p : p # <<>>)

\* line 35: re.match(r'CREATE\s+TABLE', stmt)
IsCreateTable(stmt) == MatchLits(stmt, 1, <<"CREATE", "TABLE">>) # 0

\* lines 34-42: the statements the loop does not skip
CreateStmts(ddl) ==
    SelectSeq(Statements(ddl),
              LAMBDA st : IsCreateTable(st) /\ TableSearch(st, 1).end # 0)

\* lines 44-49, for every statement of the loop in order
FksOf(cs) ==
    Flatten([k \in 1..Len(cs) |-> FindAllFks(cs[k], 1, TableSearch(cs[k], 1).name)])

fk_alters(ddl) == FksOf(CreateStmts(ddl))

\* lines 51-70, for every statement of the loop in order
StripEach(cs) == [k \in 1..Len(cs) |-> StripStatement(cs[k])]

create_statements(ddl) == StripEach(CreateStmts(ddl))

\* ----------------------------------------------------- SchemaText inputs
\* The DDL dialect the schema-inference prompt asks for: CREATE TABLE with a
\* primary key, typed columns (DECIMAL(10,2) for money) and inline FOREIGN KEY
\* clauses, in the line layouts a text generator produces.
TableNames == {"customers", "orders"}

Styles == {"own", "lead", "ownClose", "leadClose", "one", "splitRef", "share"}

Ident(name, quoted) == IF quoted THEN <<DQ, name, DQ>> ELSE <<name>>

\* CREATE TABLE [IF NOT EXISTS] name (
HeaderText(st) ==
    <<"CREATE", "TABLE">>
    \o (IF st.ine THEN <<"IF", "NOT", "EXISTS">> ELSE <<>>)
    \o Ident(st.name, st.quoted) \o <<"(">>

\* [CONSTRAINT fk] FOREIGN KEY (ref) REFERENCES table(id)
FkText(st, fk) ==
    (IF fk.con THEN <<"CONSTRAINT", "fk">> ELSE <<>>)
    \o <<"FOREIGN", "KEY", "(">> \o Ident("ref", st.quoted) \o <<")">>
    \o (IF st.style = "splitRef" THEN <<NL>> ELSE <<>>)
    \o <<"REFERENCES">> \o Ident(fk.ref, st.quoted) \o <<"(", "id", ")">>

ColumnTexts(st) ==
    << Ident("id", st.quoted) \o <<"INT", "PRIMARY", "KEY">>,
       Ident("ref", st.quoted) \o <<"INT">> >>
    \o (IF st.dec
        THEN << Ident("price", st.quoted) \o <<"DECIMAL", "(", "10", ",", "2", ")">> >>
        ELSE <<>>)

\* the separator in front of item k > 1 of the column-definition list
ItemSeparator(st, isFk) ==
    CASE st.style \in {"own", "ownClose", "splitRef"} -> <<",", NL>>
      [] st.style \in {"lead", "leadClose"} -> <<NL, ",">>
      [] st.style = "share" -> IF isFk THEN <<",">> ELSE <<",", NL>>
      [] OTHER -> <<",">>

RECURSIVE ItemsText(_, _, _, _)
ItemsText(st, items, nCols, k) ==
    IF k > Len(items) THEN <<>>
    ELSE (IF k = 1 THEN <<>> ELSE ItemSeparator(st, k > nCols))
         \o items[k] \o ItemsText(st, items, nCols, k + 1)

\* one CREATE TABLE statement as text
FkTexts(st) == [k \in 1..Len(st.fks) |-> FkText(st, st.fks[k])]

StmtText(st) ==
    HeaderText(st)
    \o (IF st.style = "one" THEN <<>> ELSE <<NL>>)
    \o ItemsText(st, ColumnTexts(st) \o FkTexts(st), Len(ColumnTexts(st)), 1)
    \o (IF st.style \in {"ownClose", "leadClose", "one"} THEN <<>> ELSE <<NL>>)
    \o <<")">>

\* the statements of a SchemaText, each ended by a semicolon
RECURSIVE DdlText(_)
DdlText(sts) ==
    IF sts = <<>> THEN <<>>
    ELSE StmtText(Head(sts)) \o <<";", NL>> \o DdlText(Tail(sts))

FkSpecs == [con : BOOLEAN, ref : TableNames]

FkSeqs == UNION {[1..n -> FkSpecs] : n \in 0..MaxFKs}

StmtSpecs ==
    [name : TableNames, quoted : BOOLEAN, ine : BOOLEAN, dec : BOOLEAN,
     fks : FkSeqs, style : Styles]

\* ------------------------------------------------- the PostgreSQL server
\* What cur.execute does with the text it is given.  A database is a function
\* from the names of its tables to [cols, pk, fks, rows]; fks holds the
\* foreign keys in force as <<column, referenced table, referenced column>>.
NULL == "NULL"

Reserved ==
    {"CREATE", "TABLE", "IF", "NOT", "EXISTS", "FOREIGN", "KEY", "REFERENCES",
     "CONSTRAINT", "PRIMARY", "INT", "DECIMAL", "ALTER", "ADD"}

\* an unquoted identifier is folded to lower case, a quoted one is kept
Lower(w) ==
    CASE w = "Orders" -> "orders"
      [] w = "Ref" -> "ref"
      [] w = "Code" -> "code"
      [] w = "A" -> "a"
      [] w = "B" -> "b"
      [] OTHER -> w

\* an identifier at s[i]: "name" or name
IdentAt(s, i) ==
    IF i # 0 /\ i + 2 <= Len(s) /\ s[i] = DQ /\ IsWord(s[i + 1]) /\ s[i + 2] = DQ
    THEN [end |-> i + 3, name |-> s[i + 1]]
    ELSE IF WordAt(s, i) /\ s[i] \notin Reserved
         THEN [end |-> i + 1, name |-> Lower(s[i])]
         ELSE NoMatch

\* the type of a column at s[e]: INT [PRIMARY KEY] | DECIMAL(10,2)
IntType(s, e, pk) ==
    IF pk # 0 THEN [end |-> pk, pk |-> TRUE] ELSE [end |-> e + 1, pk |-> FALSE]

DecType(s, dec) == [end |-> dec, pk |-> FALSE]

TypeAt(s, e) ==
    IF Lit(s, e, "INT") # 0
    THEN IntType(s, e, MatchLits(s, Lit(s, e, "INT"), <<"PRIMARY", "KEY">>))
    ELSE DecType(s, MatchLits(s, e, <<"DECIMAL", "(", "10", ",", "2", ")">>))

\* a column definition at s[i]: name type
ColDef(id, ty) ==
    IF id.end = 0 \/ ty.end = 0 THEN NoMatch
    ELSE [end |-> ty.end, col |-> id.name, pk |-> ty.pk]

ColDefOf(s, id) == ColDef(id, TypeAt(s, id.end))

ColDefAt(s, i) == ColDefOf(s, IdentAt(s, i))

\* a table constraint at s[i]:
\*   [CONSTRAINT name] FOREIGN KEY (col) REFERENCES table (col)
FkDefEnd(s, col, ref, rcol) ==
    IF Lit(s, rcol.end, ")") = 0 THEN NoMatch
    ELSE [end |-> rcol.end + 1, fk |-> <<col.name, ref.name, rcol.name>>]

FkDefRef(s, col, ref) == FkDefEnd(s, col, ref, IdentAt(s, Lit(s, ref.end, "(")))

FkDefCol(s, col) ==
    FkDefRef(s, col, IdentAt(s, MatchLits(s, col.end, <<")", "REFERENCES">>)))

FkDefFrom(s, i) == FkDefCol(s, IdentAt(s, MatchLits(s, i, <<"FOREIGN", "KEY", "(">>)))

FkDefAt(s, i) ==
    FkDefFrom(s, IF Lit(s, i, "CONSTRAINT") # 0 THEN IdentAt(s, i + 1).end ELSE i)

NoParse == [ok |-> FALSE]

\* the column-definition list from s[i] on, up to the closing parenthesis
\* that must end the statement: c and f are the column definition and the
\* table constraint read at s[i], e the index after the one that matched
RECURSIVE ItemsAt(_, _, _, _, _)
ItemsRest(s, e, cols, pk, fks) ==
    IF e = 0 \/ e > Len(s) THEN NoParse
    ELSE IF s[e] = "," THEN ItemsAt(s, e + 1, cols, pk, fks)
    ELSE IF s[e] = ")" /\ e = Len(s)
         THEN [ok |-> TRUE, cols |-> cols, pk |-> pk, fks |-> fks]
    ELSE NoParse

ItemsOf(s, c, f, cols, pk, fks) ==
    IF c.end # 0
    THEN ItemsRest(s, c.end, Append(cols, c.col), IF c.pk THEN c.col ELSE pk, fks)
    ELSE IF f.end # 0 THEN ItemsRest(s, f.end, cols, pk, Append(fks, f.fk))
    ELSE NoParse

ItemsAt(s, i, cols, pk, fks) == ItemsOf(s, ColDefAt(s, i), FkDefAt(s, i), cols, pk, fks)

\* the server's parse of CREATE TABLE [IF NOT EXISTS] name ( items )
Parsed(id, ine, items) ==
    IF id.end # 0 /\ items.ok
    THEN [ok |-> TRUE, name |-> id.name, ine |-> ine, cols |-> items.cols,
          pk |-> items.pk, fks |-> items.fks]
    ELSE NoParse

ParseItems(s, b) == IF b = 0 THEN NoParse ELSE ItemsAt(s, b, <<>>, NULL, <<>>)

ParseNamed(s, id, ine) == Parsed(id, ine, ParseItems(s, Lit(s, id.end, "(")))

ParseHeader(s, a, ine) ==
    ParseNamed(s, IdentAt(s, IF ine # 0 THEN ine ELSE a), ine # 0)

ParseAfterCreate(s, a) == ParseHeader(s, a, MatchLits(s, a, <<"IF", "NOT", "EXISTS">>))

ParseCreate(s) == ParseAfterCreate(s, MatchLits(s, 1, <<"CREATE", "TABLE">>))

Range(f) == {f[x] : x \in DOMAIN f}

EmptyDb == [t \in {} |-> NULL]

WithTable(d, t, v) == [u \in DOMAIN d \cup {t} |-> IF u = t THEN v ELSE d[u]]

\* DROP TABLE IF EXISTS "t" CASCADE: the table goes, and with it every
\* foreign key of another table that references it
ExecDrop(d, t) ==
    [u \in DOMAIN d \ {t} |-> [d[u] EXCEPT !.fks = {f \in @ : f[2] # t}]]

\* a foreign key <<col, ref, refcol>> of table t with columns cols and primary
\* key pk can be declared in database d
FkDeclarable(d, t, cols, pk, f) ==
    /\ f[1] \in Range(cols)
    /\ \/ f[2] = t /\ f[3] = pk
       \/ f[2] # t /\ f[2] \in DOMAIN d /\ f[3] = d[f[2]].pk

\* CREATE TABLE ...: [ok, db]
ExecParsed(d, p) ==
    IF ~p.ok THEN [ok |-> FALSE, db |-> d]
    ELSE IF p.name \in DOMAIN d THEN [ok |-> p.ine, db |-> d]
    ELSE IF \A k \in 1..Len(p.fks) : FkDeclarable(d, p.name, p.cols, p.pk, p.fks[k])
         THEN [ok |-> TRUE,
               db |-> WithTable(d, p.name,
                                [cols |-> p.cols, pk |-> p.pk,
                                 fks |-> Range(p.fks), rows |-> <<>>])]
    ELSE [ok |-> FALSE, db |-> d]

ExecCreate(d, stmt) == ExecParsed(d, ParseCreate(stmt))

\* the rows of table t satisfy foreign key f, given the rows of the database
FkHolds(d, rows, t, f) ==
    \A k \in 1..Len(rows) :
        \/ rows[k][f[1]] = NULL
        \/ \E q \in Range(IF f[2] = t THEN rows ELSE d[f[2]].rows) :
               q[f[3]] = rows[k][f[1]]

\* ALTER TABLE "t" ADD FOREIGN KEY ("col") REFERENCES "ref" ("refcol"), the
\* names being the texts of the tuple c = <<t, col, ref, refcol>>: [ok, db]
AlterNamed(d, t, f) ==
    IF /\ t \in DOMAIN d
       /\ f[2] \in DOMAIN d
       /\ f[1] \in Range(d[t].cols)
       /\ f[3] = d[f[2]].pk
       /\ FkHolds(d, d[t].rows, t, f)
    THEN [ok |-> TRUE, db |-> [d EXCEPT ![t].fks = @ \cup {f}]]
    ELSE [ok |-> FALSE, db |-> d]

ExecAlter(d, c) ==
    IF Len(c[2]) = 1 /\ IsWord(c[2][1]) /\ Len(c[4]) = 1 /\ IsWord(c[4][1])
    THEN AlterNamed(d, c[1], <<c[2][1], c[3], c[4][1]>>)
    ELSE [ok |-> FALSE, db |-> d]

\* --------------------------------------------- PostgresService, operations
\* Every method gets a connection of its own from _get_connection and works
\* in try: ... finally: conn.close().  A call records how many connections
\* it opened and how many of them it closed.
\* a method that closes its connection on the way of the return only
CloseOnReturn(opened, raised) == IF raised THEN 0 ELSE opened

\* finally: conn.close(), on return and on exception
Finally(opened, raised) == opened

\* lines 76-77: DROP TABLE IF EXISTS "t" CASCADE for every name, in the order given
RECURSIVE RunDrops(_, _)
RunDrops(d, names) ==
    IF names = <<>> THEN d ELSE RunDrops(ExecDrop(d, Head(names)), Tail(names))

\* lines 80-89: the statements one after the other; the first failure is
\* re-raised.  [ok, db, n]: n statements were executed, the last one failing
\* when ok is FALSE
RECURSIVE RunCreates(_, _, _)
\* a loop that goes on to the next statement after a failed one
CreateNextGoesOn(d, stmts, k, r) == RunCreates(r.db, stmts, k + 1)

CreateNext(d, stmts, k, r) ==
    IF r.ok THEN RunCreates(r.db, stmts, k + 1)
    ELSE [ok |-> FALSE, db |-> d, n |-> k]

RunCreates(d, stmts, k) ==
    IF k > Len(stmts) THEN [ok |-> TRUE, db |-> d, n |-> Len(stmts)]
    ELSE CreateNext(d, stmts, k, ExecCreate(d, stmts[k]))

\* drops issued in the order of declaration
DropOrderAsDeclared(tables) == tables

\* line 76: for table in reversed(tables)
DropOrder(tables) == Reverse(tables)

\* create_tables(ddl) on database d.  The connection commits at line 91 only;
\* an exception leaves through finally: conn.close(), which rolls back.
CreateResult(d, tables, stmts, fks, r) ==
    [db |-> IF r.ok THEN r.db ELSE d,
     ret |-> [op |-> "create_tables", raised |-> ~r.ok,
              tables |-> tables, fk_alters |-> fks,
              drops |-> DropOrder(tables), creates |-> SubSeq(stmts, 1, r.n),
              opened |-> 1, closed |-> Finally(1, ~r.ok)]]

CreateParsed(d, tables, stmts, fks) ==
    CreateResult(d, tables, stmts, fks,
                 RunCreates(RunDrops(d, DropOrder(tables)), stmts, 1))

create_tables(d, ddl) ==
    CreateParsed(d, _extract_table_names(ddl), create_statements(ddl), fk_alters(ddl))

\* lines 102-108: the constraints one after the other on one transaction.  A
\* failed ALTER aborts the transaction: every later statement fails as well,
\* and its exception is swallowed like the first.  [db, aborted, added]
RECURSIVE RunAlters(_, _, _, _, _)
AlterNext(d, cs, k, aborted, added, r) ==
    IF ~aborted /\ r.ok
    THEN RunAlters(r.db, cs, k + 1, FALSE, Append(added, cs[k]))
    ELSE RunAlters(d, cs, k + 1, TRUE, added)

RunAlters(d, cs, k, aborted, added) ==
    IF k > Len(cs) THEN [db |-> d, aborted |-> aborted, added |-> added]
    ELSE AlterNext(d, cs, k, aborted, added, ExecAlter(d, cs[k]))

\* add_foreign_keys(fk_constraints) on database d.  conn.commit() at line 109
\* ends an aborted transaction by rolling it back, and raises nothing.
AlterResult(d, cs, r) ==
    [db |-> IF r.aborted THEN d ELSE r.db,
     ret |-> [op |-> "add_foreign_keys", raised |-> FALSE,
              fk_constraints |-> cs, added |-> r.added,
              opened |-> 1, closed |-> Finally(1, FALSE)]]

add_foreign_keys(d, cs) == AlterResult(d, cs, RunAlters(d, cs, 1, FALSE, <<>>))

\* ------------------------------------------------------- CSV and row load
\* A CSV text is [header, rows]: the header names and the cells of every data
\* row, as pandas.read_csv hands them over.  A header name is [w, dup]: the
\* word w, followed by ".<dup>" when dup is not empty (the suffix pandas gives
\* a repeated header).  The empty cell "" is read as NaN.
Hdr(w) == [w |-> w, dup |-> ""]

\* INSERT INTO "t" (columns) VALUES (values): [ok, db].  columns are header
\* names; a name with a suffix names no column of the tables modelled here.
Numerals == {"1", "2"}

ValueOf(columns, values, c) ==
    IF \E k \in 1..Len(columns) : columns[k].w = c
    THEN values[CHOOSE k \in 1..Len(columns) : columns[k].w = c]
    ELSE NULL

InsertRow(d, t, tab, row) ==
    IF /\ tab.pk # NULL =>
              /\ row[tab.pk] # NULL
              /\ \A q \in Range(tab.rows) : q[tab.pk] # row[tab.pk]
       /\ \A f \in tab.fks : FkHolds(d, Append(tab.rows, row), t, f)
    THEN [ok |-> TRUE, db |-> [d EXCEPT ![t].rows = Append(@, row)]]
    ELSE [ok |-> FALSE, db |-> d]

ExecInsert(d, t, columns, values) ==
    IF /\ t \in DOMAIN d
       /\ \A k \in 1..Len(columns) :
              columns[k].dup = "" /\ columns[k].w \in Range(d[t].cols)
       /\ \A j, k \in 1..Len(columns) : columns[j].w = columns[k].w => j = k
       /\ \A k \in 1..Len(values) : values[k] \in Numerals \cup {NULL}
    THEN InsertRow(d, t, d[t],
                   [c \in Range(d[t].cols) |-> ValueOf(columns, values, c)])
    ELSE [ok |-> FALSE, db |-> d]

\* the cells handed on as they were read
ValuesAsRead(cells) == cells

\* line 159: None for a NaN cell, the cell otherwise
Values(cells) == [j \in 1..Len(cells) |-> IF cells[j] = "" THEN NULL ELSE cells[j]]

\* lines 158-160: the rows one after the other; the first failure propagates.
\* [ok, db]
RECURSIVE RunInserts(_, _, _, _, _)
InsertNext(d, t, columns, rows, k, r) ==
    IF r.ok THEN RunInserts(r.db, t, columns, rows, k + 1)
    ELSE [ok |-> FALSE, db |-> d]

RunInserts(d, t, columns, rows, k) ==
    IF k > Len(rows) THEN [ok |-> TRUE, db |-> d]
    ELSE InsertNext(d, t, columns, rows, k,
                    ExecInsert(d, t, columns, Values(rows[k])))

\* lines 126-131: the columns of the table named table_name.lower(), in order
db_columns(d, table_name) ==
    IF Lower(table_name) \in DOMAIN d THEN d[Lower(table_name)].cols ELSE <<>>

\* str.strip() on the header words of the model: one of them, " ref", has a
\* leading blank
Trim(w) == IF w = " ref" THEN "ref" ELSE w

\* the text w.dup, for the words and suffixes of the model; w itself when
\* there is no suffix
Dot(w, dup) ==
    CASE dup = "" -> w
      [] w = "ref" /\ dup = "1" -> "ref.1"
      [] w = "Ref" /\ dup = "1" -> "Ref.1"
      [] w = "code" /\ dup = "2" -> "code.2"
      [] w = "Code" /\ dup = "2" -> "Code.2"
      [] OTHER -> "?"

\* line 143: re.sub(r'\.\d+$', '', csv_col).lower().strip()
CsvClean(h) == Trim(Lower(h.w))

\* line 148: db_col.lower() == csv_clean or db_col.lower() == csv_col.lower()
ColMatches(h, db_col) ==
    \/ Lower(db_col) = CsvClean(h)
    \/ Lower(db_col) = Dot(Lower(h.w), h.dup)

\* a matcher that forgets which columns are taken
FirstMatchAny(h, dbcols, used) ==
    Least({j \in 1..Len(dbcols) : ColMatches(h, dbcols[j])})

\* lines 144-150: the first column of dbcols, not used yet, that header h
\* matches; 0 for none
FirstMatch(h, dbcols, used) ==
    Least({j \in 1..Len(dbcols) : dbcols[j] \notin used /\ ColMatches(h, dbcols[j])})

\* lines 140-150: column_mapping, as the column of every header in header
\* order, NULL for a header that is no key of the dict
RECURSIVE NameMapping(_, _, _, _, _)
MapNext(csv_columns, dbcols, k, used, acc, first) ==
    IF first = 0
    THEN NameMapping(csv_columns, dbcols, k + 1, used, Append(acc, NULL))
    ELSE NameMapping(csv_columns, dbcols, k + 1, used \cup {dbcols[first]},
                     Append(acc, dbcols[first]))

NameMapping(csv_columns, dbcols, k, used, acc) ==
    IF k > Len(csv_columns) THEN acc
    ELSE MapNext(csv_columns, dbcols, k, used, acc,
                 FirstMatch(csv_columns[k], dbcols, used))

column_mapping(csv_columns, dbcols) == NameMapping(csv_columns, dbcols, 1, {}, <<>>)

\* line 151: column_mapping.get(c, c.lower()); a header that is no key stands
\* for itself in lower case, suffix and all
GetOrLower(h, db_col) ==
    IF db_col = NULL THEN [w |-> Lower(h.w), dup |-> h.dup] ELSE Hdr(db_col)

MappedByName(csv_columns, mapping) ==
    [k \in 1..Len(csv_columns) |-> GetOrLower(csv_columns[k], mapping[k])]

\* lines 139-151: the dict of the name matching and the list made of it
ByName(csv_columns, mapping) ==
    [column_mapping |-> mapping, mapped_cols |-> MappedByName(csv_columns, mapping)]

\* name matching whatever the column counts are
ColumnsByName(csv_columns, dbcols) ==
    ByName(csv_columns, column_mapping(csv_columns, dbcols))

\* lines 133-151: mapped_cols, and column_mapping where the code builds it
\* (<< >> where it does not)
Columns(csv_columns, dbcols) ==
    IF Len(csv_columns) = Len(dbcols)
    THEN [column_mapping |-> <<>>,
          mapped_cols |-> [k \in 1..Len(dbcols) |-> Hdr(dbcols[k])]]
    ELSE ByName(csv_columns, column_mapping(csv_columns, dbcols))

mapped_cols(csv_columns, dbcols) == Columns(csv_columns, dbcols).mapped_cols

NoColumns == [column_mapping |-> <<>>, mapped_cols |-> <<>>]

\* insert_csv_data(table_name, csv_content) on database d.  Text with no
\* header line makes read_csv raise; a frame without rows returns 0 before a
\* connection is opened; the commit at line 162 follows the last row.  The
\* result records the column list of the INSERT statement and the dict it
\* was made of (<< >> when none was built).  Lines 116-119 come before
\* _get_connection: a call that ends there has opened no connection.
Connections(csv) == IF csv.header = <<>> \/ csv.rows = <<>> THEN 0 ELSE 1

InsertResult(d, table_name, csv, cols, raised, count) ==
    [db |-> d,
     ret |-> [op |-> "insert_csv_data", table_name |-> table_name, csv |-> csv,
              column_mapping |-> cols.column_mapping,
              mapped_cols |-> cols.mapped_cols,
              raised |-> raised, count |-> count,
              opened |-> Connections(csv),
              closed |-> Finally(Connections(csv), raised)]]

\* a connection in autocommit mode: the rows before the failing one stay
InsertRowsAutocommit(d, table_name, csv, cols, r) ==
    InsertResult(r.db, table_name, csv, cols, ~r.ok, IF r.ok THEN Len(csv.rows) ELSE 0)

InsertRows(d, table_name, csv, cols, r) ==
    IF r.ok THEN InsertResult(r.db, table_name, csv, cols, FALSE, Len(csv.rows))
    ELSE InsertResult(d, table_name, csv, cols, TRUE, 0)

InsertMapped(d, table_name, csv, cols) ==
    InsertRows(d, table_name, csv, cols,
               RunInserts(d, table_name, cols.mapped_cols, csv.rows, 1))

insert_csv_data(d, table_name, csv) ==
    IF csv.header = <<>> THEN InsertResult(d, table_name, csv, NoColumns, TRUE, 0)
    ELSE IF csv.rows = <<>> THEN InsertResult(d, table_name, csv, NoColumns, FALSE, 0)
    ELSE InsertMapped(d, table_name, csv,
                      Columns(csv.header, db_columns(d, table_name)))

\* ---------------------------------------------------------------- inputs
\* the most data rows of one CSV file
MaxRows == 2

\* schema texts for the two-table scenario: customers and orders, orders.ref
\* a foreign key to customers, and customers.ref one to orders when mutual
ScenarioStmt(name, hasFk, quoted, style) ==
    [name |-> name, quoted |-> quoted, ine |-> FALSE, dec |-> FALSE, style |-> style,
     fks |-> IF hasFk
             THEN << [con |-> FALSE,
                      ref |-> IF name = "orders" THEN "customers" ELSE "orders"] >>
             ELSE <<>>]

ScenarioDdls ==
    { DdlText(IF ordersFirst
              THEN << ScenarioStmt("orders", TRUE, quoted, style),
                      ScenarioStmt("customers", mutual, quoted, style) >>
              ELSE << ScenarioStmt("customers", mutual, quoted, style),
                      ScenarioStmt("orders", TRUE, quoted, style) >>) :
        ordersFirst \in BOOLEAN, mutual \in BOOLEAN, quoted \in BOOLEAN,
        style \in {"own", "one"} }

\* every single statement of the dialect, as a schema text of its own
StatementDdls == { DdlText(<<st>>) : st \in StmtSpecs }

\* the data rows of the files: id 1 referring to id 1, id 2 referring to id 2,
\* and a row whose id is no number
CsvRows == { <<"1", "1">>, <<"2", "2">>, <<"x", "1">> }

\* the content of a sheet without values: download_file returns the text ""
EmptyContent == [header |-> <<>>, rows |-> <<>>]

CsvFiles ==
    [header : {<<Hdr("id"), Hdr("ref")>>},
     rows : UNION {[1..n -> CsvRows] : n \in 0..MaxRows}]
    \cup {EmptyContent}

\* ------------------------------------------------------------------ state
VARIABLES
    schema_text,   \* the SchemaText of this behaviour
    db,            \* the committed state of the target database
    call,          \* the last call of a PostgresService method and its result
    held,          \* the fk_constraints the caller holds from create_tables
    run            \* the request of migrate_files in progress, or Idle

vars == <<schema_text, db, call, held, run>>

NoCall == [op |-> "none"]

Idle == [pc |-> "idle"]

Init ==
    /\ schema_text \in ScenarioDdls
    /\ db = EmptyDb
    /\ call = NoCall
    /\ held = <<>>
    /\ run = Idle

\* a call returns or raises: the database as committed, and the result
Returned(r) ==
    /\ db' = r.db
    /\ call' = r.ret

\* postgres.create_tables(ddl)
CreateTables ==
    /\ run.pc = "idle"
    /\ \E r \in {create_tables(db, schema_text)} :
          /\ Returned(r)
          /\ held' = IF r.ret.raised THEN held ELSE r.ret.fk_alters
    /\ UNCHANGED <<schema_text, run>>

\* postgres.insert_csv_data(table_name, csv_content)
InsertCsvData ==
    /\ run.pc = "idle"
    /\ \E t \in TableNames, csv \in CsvFiles : Returned(insert_csv_data(db, t, csv))
    /\ UNCHANGED <<schema_text, held, run>>

\* postgres.add_foreign_keys(fk_constraints), with the list create_tables returned
AddForeignKeys ==
    /\ run.pc = "idle"
    /\ held # <<>>
    /\ Returned(add_foreign_keys(db, held))
    /\ UNCHANGED <<schema_text, held, run>>

Next == CreateTables \/ InsertCsvData \/ AddForeignKeys

Spec == Init /\ [][Next]_vars

\* --------------------------------------------- migrate_files, /api/migrate
\* The files of the document store: the name of the file, the table name
\* download_file derives from it, and the content.  customers holds id 1;
\* orders holds a row that refers to customer 1 and a row that refers to
\* customer 2; Orders, a second sheet whose name differs in case only, holds a
\* row of its own.
FileIds == {"f_customers", "f_orders", "f_Orders"}

\* the name of the file without its extension
FileStem(id) ==
    CASE id = "f_customers" -> "customers"
      [] id = "f_orders" -> "orders"
      [] OTHER -> "Orders"

FileRows(id) ==
    CASE id = "f_customers" -> << <<"1", "1">> >>
      [] id = "f_orders" -> << <<"1", "1">>, <<"2", "2">> >>
      [] OTHER -> << <<"2", "2">> >>

\* composio.py line 204: the stem in lower case (blanks and dashes, of which
\* these names have none, become underscores)
DriveFile(id) ==
    [name |-> Lower(FileStem(id)),
     content |-> [header |-> <<Hdr("id"), Hdr("ref")>>, rows |-> FileRows(id)]]

\* request.file_ids: up to two file ids, none twice
FileIdLists ==
    {<<>>} \cup {<<f>> : f \in FileIds}
    \cup {<<f, g>> : <<f, g>> \in {p \in FileIds \X FileIds : p[1] # p[2]}}

\* raise HTTPException(status_code, detail)
Raised(r, status, detail) ==
    [r EXCEPT !.pc = "raised", !.status = status, !.detail = detail]

NewRun(ids, custom) ==
    [pc |-> "download", file_ids |-> ids, custom |-> custom, csv_data |-> <<>>,
     errors |-> <<>>, ddl |-> <<>>, tables |-> <<>>, rows_inserted |-> <<>>,
     status |-> 0, detail |-> "", success |-> FALSE]

\* lines 494-519: a request arrives; 401 unless the user's Drive is connected
MigrateStart ==
    /\ run.pc = "idle"
    /\ \E ids \in FileIdLists, custom \in BOOLEAN, connected \in BOOLEAN :
          run' = IF connected THEN NewRun(ids, custom)
                 ELSE Raised(NewRun(ids, custom), 401, "Google Drive not connected")
    /\ UNCHANGED <<schema_text, db, call, held>>

\* line 528: csv_data[name] = content.  csv_data is a dict, kept here as the
\* sequence of its items in insertion order: a name that is a key already
\* keeps its place and gets the new content
DictSet(items, f) ==
    IF \E k \in 1..Len(items) : items[k].name = f.name
    THEN [k \in 1..Len(items) |-> IF items[k].name = f.name THEN f ELSE items[k]]
    ELSE Append(items, f)

\* lines 523-531: csv_data[name] = content for every file that downloads, an
\* error entry for every file that does not
RECURSIVE DownloadInto(_, _, _)
DownloadInto(items, ids, failing) ==
    IF ids = <<>> THEN items
    ELSE DownloadInto(IF Head(ids) \in failing THEN items
                      ELSE DictSet(items, DriveFile(Head(ids))),
                      Tail(ids), failing)

Downloaded(ids, failing) == DownloadInto(<<>>, ids, failing)

ErrorsOf(kind, items) == [k \in 1..Len(items) |-> [kind |-> kind, item |-> items[k]]]

DownloadErrors(ids, failing) ==
    ErrorsOf("download", SelectSeq(ids, LAMBDA f : f \in failing))

\* lines 533-535
AfterDownload(r) ==
    IF r.csv_data = <<>> THEN Raised(r, 400, "No files could be downloaded")
    ELSE [r EXCEPT !.pc = "schema"]

\* lines 521-537: step 1; 400 when no file could be downloaded
Download ==
    /\ run.pc = "download"
    /\ \E failing \in SUBSET Range(run.file_ids) :
          run' = AfterDownload([run EXCEPT
                                   !.csv_data = Downloaded(run.file_ids, failing),
                                   !.errors = DownloadErrors(run.file_ids, failing)])
    /\ UNCHANGED <<schema_text, db, call, held>>

\* lines 539-551: step 2; the custom DDL, or the DDL the oracle infers, or 500
\* when the oracle raises
GetSchema ==
    /\ run.pc = "schema"
    /\ \/ run' = [run EXCEPT !.pc = "create", !.ddl = schema_text]
       \/ /\ ~run.custom
          /\ run' = Raised(run, 500, "Schema inference failed")
    /\ UNCHANGED <<schema_text, db, call, held>>

\* a Python value with its type, as far as str.join looks at it
PyList(v) == [type |-> "list", v |-> v]

\* ', '.join(items) raises TypeError unless every item is a str
JoinRaises(items) == \E k \in 1..Len(items) : items[k].type # "str"

\* lines 553-560: step 3.  tables is bound to the tuple create_tables returns,
\* (table_names, fk_constraints), and the log line 557 joins its items; any
\* exception of the try block becomes 500.
Created(raised, tables) ==
    run' = IF raised THEN Raised(run, 500, "Table creation failed")
           ELSE IF JoinRaises(tables)
           THEN Raised([run EXCEPT !.tables = tables], 500, "Table creation failed")
           ELSE [run EXCEPT !.pc = "insert", !.tables = tables]

CreateTablesStep ==
    /\ run.pc = "create"
    /\ \E r \in {create_tables(db, run.ddl)} :
          /\ Returned(r)
          /\ Created(r.ret.raised, <<PyList(r.ret.tables), PyList(r.ret.fk_alters)>>)
    /\ UNCHANGED <<schema_text, held>>

\* lines 562-572: step 4, one insert_csv_data per entry of csv_data; a raising
\* call adds an error entry and the loop goes on
RECURSIVE LoadFiles(_, _, _, _)
LoadNext(d, files, counts, errs, f, r) ==
    IF r.ret.raised
    THEN LoadFiles(d, Tail(files), counts,
                   Append(errs, [kind |-> "insert", item |-> f.name]))
    ELSE LoadFiles(r.db, Tail(files), Append(counts, <<f.name, r.ret.count>>), errs)

LoadFiles(d, files, counts, errs) ==
    IF files = <<>> THEN [db |-> d, rows_inserted |-> counts, errors |-> errs]
    ELSE LoadNext(d, files, counts, errs, Head(files),
                  insert_csv_data(d, Head(files).name, Head(files).content))

InsertData ==
    /\ run.pc = "insert"
    /\ \E r \in {LoadFiles(db, run.csv_data, <<>>, run.errors)} :
          /\ db' = r.db
          /\ run' = [run EXCEPT !.pc = "respond", !.rows_inserted = r.rows_inserted,
                                !.errors = r.errors]
    /\ UNCHANGED <<schema_text, call, held>>

\* lines 574-587: the MigrateResponse
Respond ==
    /\ run.pc = "respond"
    /\ run' = [run EXCEPT !.pc = "returned", !.status = 200,
                          !.success = (Len(run.errors) = 0)]
    /\ UNCHANGED <<schema_text, db, call, held>>

\* the response or the HTTP error is sent; the run is discarded
MigrateEnd ==
    /\ run.pc \in {"raised", "returned"}
    /\ run' = Idle
    /\ UNCHANGED <<schema_text, db, call, held>>

\* The requests of /api/migrate, one after the other.  InsertData and Respond
\* are no disjuncts: RunNeverLoads below shows that no run gets to them.
NextRun == MigrateStart \/ Download \/ GetSchema \/ CreateTablesStep \/ MigrateEnd

SpecRun == Init /\ [][NextRun]_vars

\* no run of migrate_files reaches step 4: line 557 raises in every run whose
\* create_tables call returned
RunNeverLoads == run.pc \notin {"insert", "respond", "returned"}

\* ------------------------------------- create_tables on single statements
\* create_tables called, once or again, with a schema text of one statement
\* of the dialect, in every layout
InitDDL ==
    /\ schema_text \in StatementDdls
    /\ db = EmptyDb
    /\ call = NoCall
    /\ held = <<>>
    /\ run = Idle

NextDDL == CreateTables

SpecDDL == InitDDL /\ [][NextDDL]_vars

\* ============================================================== properties
\* ---- reading a schema text as it is written
\* the first word at or after s[i]
FirstWord(s, i) == s[Least({j \in i..Len(s) : IsWord(s[j])})]

\* the places where a FOREIGN KEY clause starts
ClausePlaces(s) == {i \in 1..Len(s) : s[i] = "FOREIGN"}

\* the table a one-statement schema text declares
DeclaredTable(s) ==
    FirstWord(s, IF IndexOf(s, "EXISTS", 1) # 0 THEN IndexOf(s, "EXISTS", 1) + 1 ELSE 3)

\* the clause FOREIGN KEY (col) REFERENCES table (refcol) written at s[i], as
\* the descriptor (owner table, owner column, referenced table, referenced
\* column) with the bare names
ReferencedAt(s, r) == <<FirstWord(s, r + 1), <<FirstWord(s, IndexOf(s, "(", r) + 1)>> >>

WrittenDescriptor(s, i) ==
    <<DeclaredTable(s), <<FirstWord(s, i + 2)>> >>
    \o ReferencedAt(s, IndexOf(s, "REFERENCES", i))

\* the foreign key c = <<t, col, ref, refcol>> is in force in database d
InForce(d, c) ==
    /\ c[1] \in DOMAIN d
    /\ \E f \in d[c[1]].fks : <<f[1]>> = c[2] /\ f[2] = c[3] /\ <<f[3]>> = c[4]

\* ---- C1
\* C1: called on an empty database with a schema text of N independently
\* valid CREATE TABLE statements, create_tables raises nothing and the N
\* tables exist afterwards, whatever the order of the statements and the
\* layout of their FOREIGN KEY clauses.
C1_EveryStatementCreatesItsTable ==
    [][(db = EmptyDb /\ call'.op = "create_tables")
       => (~call'.raised /\ DOMAIN db' = TableNames)]_vars

\* ---- C2
\* C2: a run of migrate_files whose create_tables call returned goes on from
\* step 3 to the load phase (and from there to the deferred pass and the
\* response).
C2_RunGoesOnToLoad ==
    [][(run.pc = "create" /\ call'.op = "create_tables" /\ ~call'.raised)
       => run'.pc = "insert"]_vars

\* ---- C3
\* C3: after add_foreign_keys, every constraint of the list that is valid
\* against the loaded data is in force, whether or not another constraint of
\* the list failed.
C3_EachValidConstraintInForce ==
    call.op = "add_foreign_keys" =>
        \A k \in 1..Len(call.fk_constraints) :
            ExecAlter(db, call.fk_constraints[k]).ok
            => InForce(db, call.fk_constraints[k])

\* ---- C4
\* the rows stored one by one, a row that cannot be inserted being skipped:
\* the database and the number of rows stored
RECURSIVE TolerantLoad(_, _, _, _, _, _)
TolerantNext(d, t, columns, rows, k, n, r) ==
    IF r.ok THEN TolerantLoad(r.db, t, columns, rows, k + 1, n + 1)
    ELSE TolerantLoad(d, t, columns, rows, k + 1, n)

TolerantLoad(d, t, columns, rows, k, n) ==
    IF k > Len(rows) THEN [db |-> d, count |-> n]
    ELSE TolerantNext(d, t, columns, rows, k, n,
                      ExecInsert(d, t, columns, Values(rows[k])))

TolerantResult(d, t, csv) ==
    TolerantLoad(d, t, mapped_cols(csv.header, db_columns(d, t)), csv.rows, 1, 0)

Tolerated(r, d, ret) == ~ret.raised /\ d = r.db /\ ret.count = r.count

\* C4: insert_csv_data on an existing table stores every insertable row of
\* the file, skips the rows that fail, raises nothing and returns the number
\* of rows stored.
C4_RowFailureIsNotFatal ==
    [][(call'.op = "insert_csv_data" /\ call'.table_name \in DOMAIN db)
       => Tolerated(TolerantResult(db, call'.table_name, call'.csv), db', call')]_vars

\* ---- C5
\* C5: for a CREATE TABLE statement with K FOREIGN KEY (col) REFERENCES
\* table(col) clauses, create_tables returns K constraint descriptors, the
\* k-th being (table of the statement, column, referenced table, referenced
\* column) of the k-th clause, every name without its quotes.
C5_OneDescriptorPerClause ==
    call.op = "create_tables" =>
        /\ Len(call.fk_alters) = Cardinality(ClausePlaces(schema_text))
        /\ \A k \in 1..Len(call.fk_alters) :
               call.fk_alters[k]
                   = WrittenDescriptor(schema_text, Nth(ClausePlaces(schema_text), k))

\* a quoted statement with two clauses to different tables has been processed
C5_Witness ==
    /\ call.op = "create_tables"
    /\ DQ \in Range(schema_text)
    /\ Len(call.fk_alters) = 2
    /\ call.fk_alters[1][3] # call.fk_alters[2][3]
    /\ call.fk_alters[1][2] = <<"ref">>

\* ---- C6
\* C6: when create_tables has extracted constraint descriptors from a
\* statement, the statement it executes holds no FOREIGN KEY clause.
C6_ExecutedHasNoExtractedClause ==
    (call.op = "create_tables" /\ call.fk_alters # <<>>) =>
        \A k \in 1..Len(call.creates) : "FOREIGN" \notin Range(call.creates[k])

\* ---- C7
Opens(s, i) == Cardinality({j \in 1..i : s[j] = "("})

Closes(s, i) == Cardinality({j \in 1..i : s[j] = ")"})

Balanced(s) ==
    /\ \A i \in 1..Len(s) : Closes(s, i) <= Opens(s, i)
    /\ Closes(s, Len(s)) = Opens(s, Len(s))

CommaBeforeClose(s) == \E i \in 1..(Len(s) - 1) : s[i] = "," /\ s[i + 1] = ")"

\* C7: every statement create_tables executes for a well-formed CREATE TABLE
\* statement has balanced parentheses and no comma in front of a closing
\* parenthesis.
C7_RewrittenWellFormed ==
    call.op = "create_tables" =>
        \A k \in 1..Len(call.creates) :
            Balanced(call.creates[k]) /\ ~CommaBeforeClose(call.creates[k])

\* ---- C8
\* the run has created customers, then orders, with orders.ref deferred as a
\* foreign key to customers, and has downloaded the orders file
ScenarioRun ==
    /\ run.pc \in {"raised", "returned"}
    /\ run.tables # <<>>
    /\ run.tables[1].v = <<"customers", "orders">>
    /\ run.tables[2].v = << <<"orders", <<"ref">>, "customers", <<"id">> >> >>
    /\ \E k \in 1..Len(run.csv_data) : run.csv_data[k].name = "orders"

\* C8: when the run of the customers/orders scenario is over, every row of
\* the orders file is in the orders table, the rows that refer to a customer
\* that is not there included.
C8_OrdersRowsStored ==
    ScenarioRun =>
        /\ "orders" \in DOMAIN db
        /\ Len(db["orders"].rows) = Len(DriveFile("f_orders").content.rows)

\* ---- C9
\* C9: the list add_foreign_keys returns has an entry for every constraint
\* that could not be applied.
C9_FailedConstraintsReported ==
    call.op = "add_foreign_keys" =>
        \A k \in 1..Len(call.fk_constraints) :
            ~InForce(db, call.fk_constraints[k])
            => \E j \in 1..Len(call.added) : call.added[j] = call.fk_constraints[k]

\* ---- C10
\* C10: create_tables called on the database that an earlier call with the
\* same schema text has filled raises nothing and leaves every table of the
\* database dropped and recreated, that is, empty.
C10_SecondRunRecreates ==
    [][(DOMAIN db # {} /\ call'.op = "create_tables")
       => (~call'.raised /\ \A t \in DOMAIN db' : db'[t].rows = <<>>)]_vars

\* ---- C11
\* the run is over and has passed the connection check with a file id
RunOver == run.pc \in {"raised", "returned"}

\* C11: a run that was asked for at least one file and has passed the
\* connection check ends with a MigrateResponse, never with an HTTP error.
C11_CallerGetsReport ==
    (RunOver /\ run.file_ids # <<>> /\ run.status # 401) => run.pc = "returned"

\* ---- C12
\* the files of the run that were downloaded: those without a download error
DownloadedIds(r) ==
    {id \in Range(r.file_ids) :
        \A k \in 1..Len(r.errors) : r.errors[k].item # id}

\* the entries of csv_data, for each of which step 4 makes its one
\* insert_csv_data call (lines 565-567), that hold the content of file id
ConsumersOf(r, id) ==
    {k \in 1..Len(r.csv_data) : r.csv_data[k].content = DriveFile(id).content}

\* C12: once the download step is over, the work list of the row loader holds
\* the content of every downloaded file exactly once, so that each file is
\* passed to insert_csv_data exactly once.
C12_EachFileConsumedOnce ==
    run.pc \in {"schema", "create"} =>
        \A id \in DownloadedIds(run) : Cardinality(ConsumersOf(run, id)) = 1

\* ---- C13
\* the database after the statements stmts, each executed on its own merits
RECURSIVE DbAfter(_, _)
DbAfter(d, stmts) ==
    IF stmts = <<>> THEN d ELSE DbAfter(ExecCreate(d, Head(stmts)).db, Tail(stmts))

\* the place of the first statement of stmts that PostgreSQL rejects, starting
\* from database d; 0 when it accepts them all
FirstFail(d, stmts) ==
    Least({k \in 1..Len(stmts) :
              ~ExecCreate(DbAfter(d, SubSeq(stmts, 1, k - 1)), stmts[k]).ok})

FirstFailOfRun ==
    FirstFail(RunDrops(db, Reverse(_extract_table_names(run.ddl))),
              create_statements(run.ddl))

\* C13: when a CREATE TABLE statement of a run fails, the statements executed
\* are those up to and including the failing one and none after it, nothing of
\* the call is committed, and the run ends at once with the fatal error 500
\* "Table creation failed": no file is loaded and no constraint is applied.
C13_CreateFailureAbortsRun ==
    [][(run.pc = "create" /\ FirstFailOfRun # 0) =>
          /\ call'.op = "create_tables" /\ call'.raised
          /\ call'.creates = SubSeq(create_statements(run.ddl), 1, FirstFailOfRun)
          /\ db' = db
          /\ run'.pc = "raised" /\ run'.status = 500
          /\ run'.detail = "Table creation failed"
          /\ run'.rows_inserted = <<>>]_vars

\* a run stopped by its first CREATE statement, the second never executed
C13_Witness ==
    /\ run.pc = "raised" /\ run.detail = "Table creation failed"
    /\ call.op = "create_tables" /\ call.raised
    /\ Len(call.creates) = 1
    /\ Len(create_statements(run.ddl)) = 2

\* ------------------------------------ insert_csv_data, the column mapping
\* the most headers of one CSV file
MaxHeaders == 3

\* the column lists of the destination table: as many columns as, fewer than
\* and more than the files have headers; names that differ from the headers
\* in case; a column whose name has the form of a disambiguated header
MapColumns ==
    { <<"x", "y">>, <<"id", "ref">>, <<"id", "Ref", "price">>,
      <<"ref.1", "ref", "id">>, <<"id", "ref", "code", "price">> }

MapTable == "orders"

MapDb(cols) ==
    WithTable(EmptyDb, MapTable, [cols |-> cols, pk |-> NULL, fks |-> {}, rows |-> <<>>])

\* header names: plain, mixed case, with the suffix pandas gives a repeated
\* name, with a blank after the comma
MapHeaders ==
    { Hdr("id"), Hdr("ref"), Hdr("Ref"), Hdr("A"), Hdr("a"), Hdr("B"), Hdr(" ref"),
      [w |-> "ref", dup |-> "1"], [w |-> "Ref", dup |-> "1"],
      [w |-> "Code", dup |-> "2"] }

\* pandas hands over no name twice
MapHeaderLists ==
    UNION { {h \in [1..n -> MapHeaders] : \A j, k \in 1..n : h[j] = h[k] => j = k} :
            n \in 1..MaxHeaders }

\* the cells of a data row of n cells: every cell a number, or one cell
\* empty (or missing at the end of the line), which pandas reads as NaN
MapCells(n) ==
    { [k \in 1..n |-> "1"] } \cup { [k \in 1..n |-> IF k = p THEN "" ELSE "2"] : p \in 1..n }

\* a file of one data row
MapFile(h, cells) == [header |-> h, rows |-> <<cells>>]

InitMap ==
    /\ schema_text = <<>>
    /\ db \in { MapDb(cols) : cols \in MapColumns }
    /\ call = NoCall
    /\ held = <<>>
    /\ run = Idle

\* postgres.insert_csv_data(table_name, csv_content), the one call of the
\* behaviour
LoadCsv ==
    /\ call = NoCall
    /\ \E h \in MapHeaderLists :
          \E cells \in MapCells(Len(h)) :
              Returned(insert_csv_data(db, MapTable, MapFile(h, cells)))
    /\ UNCHANGED <<schema_text, held, run>>

NextMap == LoadCsv

SpecMap == InitMap /\ [][NextMap]_vars

\* ---- C14
\* an insert_csv_data call that got as far as building its column list
Mapped == call.op = "insert_csv_data" /\ call.csv.header # <<>> /\ call.csv.rows # <<>>

DestColumns == db_columns(db, call.table_name)

\* C14: when the file has as many headers as the destination table has
\* columns, header i is mapped to destination column i, whatever the names.
C14_EqualCountsMapByPosition ==
    (Mapped /\ Len(call.csv.header) = Len(DestColumns)) =>
        /\ Len(call.mapped_cols) = Len(DestColumns)
        /\ \A i \in 1..Len(DestColumns) : call.mapped_cols[i] = Hdr(DestColumns[i])

\* header [A, B] against destination [x, y]
C14_Witness ==
    /\ Mapped
    /\ call.csv.header = <<Hdr("A"), Hdr("B")>>
    /\ DestColumns = <<"x", "y">>
    /\ call.mapped_cols = <<Hdr("x"), Hdr("y")>>

\* ---- C15
\* a call that matched its headers by name
MappedByNames == Mapped /\ Len(call.csv.header) # Len(DestColumns)

\* m gives every header, in header order, the first column that Matches it
\* and that no earlier header has taken; 0 when there is none
FirstFree(Matches(_, _), hs, cols, m) ==
    \A k \in 1..Len(hs) :
        m[k] = Least({j \in 1..Len(cols) :
                         Matches(hs[k], cols[j]) /\ \A i \in 1..(k - 1) : m[i] # j})

\* the place among the destination columns of the column that column_mapping
\* gives header k; 0 when it gives none
TakenPlaces ==
    [k \in 1..Len(call.column_mapping) |->
        Least({j \in 1..Len(DestColumns) : DestColumns[j] = call.column_mapping[k]})]

\* column_mapping is what the rule Matches gives, and no column is given to
\* two headers
MappingFollows(Matches(_, _)) ==
    /\ Len(call.column_mapping) = Len(call.csv.header)
    /\ \A k \in 1..Len(call.column_mapping) :
           call.column_mapping[k] = NULL \/ TakenPlaces[k] # 0
    /\ FirstFree(Matches, call.csv.header, DestColumns, TakenPlaces)
    /\ \A j, k \in DOMAIN TakenPlaces :
           (TakenPlaces[j] # 0 /\ TakenPlaces[j] = TakenPlaces[k]) => j = k

\* the header without its suffix, in lower case
Normalised(h) == Lower(h.w)

MatchesNormalised(h, col) == Lower(col) = Normalised(h)

\* the header's whole text in lower case, the suffix kept
LowerText(h) == Dot(Lower(h.w), h.dup)

MatchesNormalisedOrText(h, col) ==
    \/ Lower(col) = Trim(Normalised(h))
    \/ Lower(col) = LowerText(h)

\* C15 as stated: under name matching a header matches the columns whose name
\* in lower case is the header without its suffix in lower case; headers are
\* served in header order, each takes the first matching column not taken yet.
C15_MatchByNormalisedName == MappedByNames => MappingFollows(MatchesNormalised)

\* C15, amended: a header matches a column whose name in lower case is either
\* the header without its suffix, in lower case and trimmed of blanks, or the
\* header's whole text in lower case; headers are served in header order,
\* each takes the first matching column not taken yet, and no column is
\* taken twice.
C15_MatchByNameOrText == MappedByNames => MappingFollows(MatchesNormalisedOrText)

\* ref takes column ref, Ref finds it taken, Code.2 takes column code
C15_Witness ==
    /\ MappedByNames
    /\ call.csv.header = <<Hdr("ref"), Hdr("Ref"), [w |-> "Code", dup |-> "2"]>>
    /\ DestColumns = <<"id", "ref", "code", "price">>
    /\ call.column_mapping = <<"ref", NULL, "code">>

\* ---- C16
\* C16: under name matching, a header that matched no column is mapped to its
\* own text in lower case without the ".<digits>" suffix.
C16_UnmatchedFallsBackStripped ==
    MappedByNames =>
        \A k \in 1..Len(call.csv.header) :
            call.column_mapping[k] = NULL =>
                call.mapped_cols[k] = Hdr(Normalised(call.csv.header[k]))

\* ----------------------------------------------- execute_query, /api/query
\* A query text is the sequence of its characters.
\* the most blanks before and after a query text
MaxBlanks == 2

WhiteSpace == {" ", NL}

LowerCase ==
    <<"a", "b", "c", "d", "e", "f", "g", "h", "i", "j", "k", "l", "m",
      "n", "o", "p", "q", "r", "s", "t", "u", "v", "w", "x", "y", "z">>

UpperCase ==
    <<"A", "B", "C", "D", "E", "F", "G", "H", "I", "J", "K", "L", "M",
      "N", "O", "P", "Q", "R", "S", "T", "U", "V", "W", "X", "Y", "Z">>

\* str.upper(), character by character
UpperChar(c) ==
    IF \E k \in 1..26 : LowerCase[k] = c
    THEN UpperCase[CHOOSE k \in 1..26 : LowerCase[k] = c]
    ELSE c

Upper(s) == [k \in 1..Len(s) |-> UpperChar(s[k])]

\* str.strip() of a text of characters
RECURSIVE TrimLeft(_)
TrimLeft(s) == IF s # <<>> /\ Head(s) \in WhiteSpace THEN TrimLeft(Tail(s)) ELSE s

RECURSIVE TrimRight(_)
TrimRight(s) ==
    IF s # <<>> /\ s[Len(s)] \in WhiteSpace
    THEN TrimRight(SubSeq(s, 1, Len(s) - 1)) ELSE s

TrimText(s) == TrimRight(TrimLeft(s))

\* str.startswith(prefix)
StartsWith(s, prefix) == Len(s) >= Len(prefix) /\ SubSeq(s, 1, Len(prefix)) = prefix

SELECT == <<"S", "E", "L", "E", "C", "T">>

\* a gate that compares the text as written
IsSelectAsWritten(sql) == StartsWith(sql, SELECT)

\* main.py line 617: sql.upper().startswith("SELECT")
IsSelect(sql) == StartsWith(Upper(sql), SELECT)

\* what PostgreSQL answers to the texts of the model: SELECT 1 gives one row
\* of one column; every other text is an error (a syntax error, or a
\* statement without a result set at cur.fetchall()).  Nothing is committed:
\* execute_query never calls conn.commit().
SelectOne == <<"S", "E", "L", "E", "C", "T", " ", "1">>

ExecSql(d, sql) ==
    IF Upper(sql) = SelectOne
    THEN [ok |-> TRUE, columns |-> <<"?column?">>, rows |-> << <<"1">> >>,
          error |-> ""]
    ELSE [ok |-> FALSE, columns |-> <<>>, rows |-> <<>>, error |-> "ProgrammingError"]

\* QueryResponse
QueryResponse(text, opened, r) ==
    [op |-> "execute_query", sql |-> text, opened |-> opened,
     closed |-> Finally(opened, ~r.ok),
     success |-> r.ok, columns |-> r.columns, rows |-> r.rows,
     row_count |-> Len(r.rows), error |-> r.error]

PolicyError ==
    [ok |-> FALSE, columns |-> <<>>, rows |-> <<>>,
     error |-> "Only SELECT queries are allowed"]

\* lines 606-635: the text trimmed; the policy error, or one connection on
\* which the trimmed text is executed; opened counts the connections
Gate(d, text, sql) ==
    IF ~IsSelect(sql) THEN QueryResponse(text, 0, PolicyError)
    ELSE QueryResponse(text, 1, ExecSql(d, sql))

execute_query(d, text) == [db |-> d, ret |-> Gate(d, text, TrimText(text))]

\* the query texts
QueryBodies ==
    { <<>>,
      <<"s", "e", "l", "e", "c", "t", " ", "1">>,
      <<"S", "e", "l", "e", "c", "t", " ", "1">>,
      <<"S", "E", "L", "E", "C", "T", " ", "1">>,
      <<"s", "E", "l", "E", "c", "T", " ", "1">>,
      <<"s", "e", "l", "e", "c", "t">>,
      <<"s", "e", "l", "e", "c", " ", "1">>,
      <<"s", "e", "l", "e", "c", "t", "e", "d">>,
      <<"(", "s", "e", "l", "e", "c", "t", " ", "1", ")">>,
      <<"1", " ", "s", "e", "l", "e", "c", "t">>,
      <<"s", " ", "e", "l", "e", "c", "t">>,
      <<"D", "R", "O", "P", " ", "T", "A", "B", "L", "E", " ",
        "c", "u", "s", "t", "o", "m", "e", "r", "s">>,
      <<"d", "r", "o", "p", " ", "t", "a", "b", "l", "e", " ",
        "c", "u", "s", "t", "o", "m", "e", "r", "s">> }

Blanks(n, c) == [k \in 1..n |-> c]

QueryTexts ==
    { Blanks(a, c) \o body \o Blanks(b, c) :
        a \in 0..MaxBlanks, b \in 0..MaxBlanks, c \in WhiteSpace, body \in QueryBodies }

\* the database holds table customers with one row, or nothing
InitQuery ==
    /\ schema_text = <<>>
    /\ db \in { EmptyDb,
                WithTable(EmptyDb, "customers",
                          [cols |-> <<"id", "ref">>, pk |-> "id", fks |-> {},
                           rows |-> << [c \in {"id", "ref"} |-> "1"] >>]) }
    /\ call = NoCall
    /\ held = <<>>
    /\ run = Idle

\* POST /api/query with one of texts
QueryWith(texts) ==
    /\ \E text \in texts : Returned(execute_query(db, text))
    /\ UNCHANGED <<schema_text, held, run>>

ExecuteQuery == QueryWith(QueryTexts)

NextQuery == ExecuteQuery

SpecQuery == InitQuery /\ [][NextQuery]_vars

\* ---- C17
\* the text begins, after its leading blanks, with the letters s e l e c t in
\* upper or lower case
BeginsWithSelect(text) ==
    \E i \in 1..Len(text) :
        /\ \A j \in 1..(i - 1) : text[j] \in WhiteSpace
        /\ Len(text) >= i + 5
        /\ text[i] \in {"s", "S"} /\ text[i + 1] \in {"e", "E"}
        /\ text[i + 2] \in {"l", "L"} /\ text[i + 3] \in {"e", "E"}
        /\ text[i + 4] \in {"c", "C"} /\ text[i + 5] \in {"t", "T"}

\* C17: a query text gets to the database exactly when, trimmed and in upper
\* case, it begins with SELECT; every other text is answered with the policy
\* error, no connection is opened for it and the database stays as it is.
C17_OnlySelectReachesDatabase ==
    [][call'.op = "execute_query" =>
          /\ call'.opened = (IF BeginsWithSelect(call'.sql) THEN 1 ELSE 0)
          /\ ~BeginsWithSelect(call'.sql) =>
                 /\ ~call'.success
                 /\ call'.error = "Only SELECT queries are allowed"
                 /\ call'.rows = <<>>
                 /\ db' = db]_vars

\* DROP TABLE customers turned away, table customers still there
C17_WitnessRejected ==
    /\ call.op = "execute_query"
    /\ TrimText(call.sql) = <<"D", "R", "O", "P", " ", "T", "A", "B", "L", "E", " ",
                              "c", "u", "s", "t", "o", "m", "e", "r", "s">>
    /\ call.opened = 0 /\ ~call.success
    /\ "customers" \in DOMAIN db

\* ---- C18
\* a run whose create_tables call returned its tables
TablesCreated == RunOver /\ run.tables # <<>>

C19_TableListNamesDeclaredTable ==
    call.op = "create_tables" =>
        /\ call.tables = <<DeclaredTable(schema_text)>>
        /\ call.drops = <<DeclaredTable(schema_text)>>

\* ---- C20
\* C20: every constraint descriptor that create_tables hands back without
\* raising references a table that the schema text declares; a reference to a
\* table that is not declared is reported, the call does not return normally.
C20_ReferencesDeclaredTable ==
    (call.op = "create_tables" /\ ~call.raised) =>
        \A k \in 1..Len(call.fk_alters) :
            call.fk_alters[k][3] = DeclaredTable(schema_text)

\* ---- C21
\* C21: insert_csv_data on content without data rows, a header line only or
\* no text at all, raises nothing, returns 0 and leaves the database as it is.
C21_NoRowsIsNoError ==
    [][(call'.op = "insert_csv_data" /\ call'.csv.rows = <<>>)
       => (~call'.raised /\ call'.count = 0 /\ db' = db)]_vars

\* ---- C22
\* the value PostgreSQL is to get for a cell
NullOrCell(cell) == IF cell = "" THEN NULL ELSE cell

\* the rows the destination table holds
StoredRows == db[Lower(call.table_name)].rows

\* C22: every cell of a data row reaches the INSERT as SQL null when it is
\* empty and as the cell itself otherwise.  Seen in the table: a row mapped
\* by position is stored, and in every stored row the column of header k
\* holds null for an empty cell k and cell k otherwise.
C22_EmptyCellIsNull ==
    Mapped =>
        /\ Len(call.csv.header) = Len(DestColumns) => ~call.raised
        /\ ~call.raised =>
               /\ Len(StoredRows) = Len(call.csv.rows)
               /\ \A r \in 1..Len(StoredRows) : \A k \in 1..Len(call.csv.header) :
                      StoredRows[r][call.mapped_cols[k].w] = NullOrCell(call.csv.rows[r][k])

\* a row with an empty second cell, stored with null in the second column
C22_Witness ==
    /\ Mapped /\ ~call.raised
    /\ call.csv.rows = << <<"2", "">> >>
    /\ DestColumns = <<"id", "ref">>
    /\ StoredRows = << [c \in {"id", "ref"} |-> IF c = "id" THEN "2" ELSE NULL] >>

\* ---- C23
\* the places of the schema text where a table is declared, and the names
\* declared there, in the order of the text
DeclPlaces(s) == {i \in 2..Len(s) : s[i] = "TABLE" /\ s[i - 1] = "CREATE"}

DeclaredNames(s) ==
    [k \in 1..Cardinality(DeclPlaces(s)) |-> FirstWord(s, Nth(DeclPlaces(s), k) + 1)]

DeclaredAt(s, name) == {k \in DOMAIN DeclaredNames(s) : DeclaredNames(s)[k] = name}

\* C23: the tables create_tables drops are dropped last-declared first, the
\* CREATE statements are executed in the order of declaration, and every
\* drop precedes every create: a table of the call exists when it returns.
C23_DropsReversedCreatesForward ==
    call.op = "create_tables" =>
        /\ \A i, j \in 1..Len(call.drops) :
               i < j => \E a \in DeclaredAt(schema_text, call.drops[i]),
                           b \in DeclaredAt(schema_text, call.drops[j]) : a > b
        /\ \A k \in 1..Len(call.creates) :
               FirstWord(call.creates[k], 3) = DeclaredNames(schema_text)[k]
        /\ ~call.raised =>
               \A k \in 1..Len(call.creates) : FirstWord(call.creates[k], 3) \in DOMAIN db

\* orders declared first: customers dropped first, orders created first
C23_Witness ==
    /\ call.op = "create_tables" /\ ~call.raised
    /\ DeclaredNames(schema_text) = <<"orders", "customers">>
    /\ call.drops = <<"customers", "orders">>
    /\ Len(call.creates) = 2

list_tables(d) ==
    [db |-> d,
     ret |-> [op |-> "list_tables", raised |-> FALSE,
              tables |-> [t \in DOMAIN d |-> Len(d[t].rows)],
              opened |-> 1, closed |-> Finally(1, FALSE)]]

\* GET /api/tables
ListTables ==
    /\ Returned(list_tables(db))
    /\ UNCHANGED <<schema_text, held, run>>

\* POST /api/query with a text without blanks around it
QueryBody == QueryWith(QueryBodies)

\* postgres.insert_csv_data with the name and the content of a file of the
\* document store, or with the content of a sheet without values
InsertFile ==
    /\ \E id \in FileIds :
          \E content \in {DriveFile(id).content, EmptyContent} :
              Returned(insert_csv_data(db, DriveFile(id).name, content))
    /\ UNCHANGED <<schema_text, held, run>>

\* the five methods that open a connection, called in any order
NextCalls == CreateTables \/ InsertFile \/ AddForeignKeys \/ QueryBody \/ ListTables

SpecCalls == Init /\ [][NextCalls]_vars

C26_AddedListIsInForce ==
    [][call'.op = "add_foreign_keys" =>
          \A k \in 1..Len(call'.fk_constraints) :
              /\ call'.fk_constraints[k] \in Range(call'.added)
                     => InForce(db', call'.fk_constraints[k])
              /\ (~InForce(db, call'.fk_constraints[k])
                      /\ InForce(db', call'.fk_constraints[k]))
                     => call'.fk_constraints[k] \in Range(call'.added)]_vars

\* ---- C27
\* C27: the column list of the INSERT statement names no column twice.
C27_NoColumnNamedTwice ==
    Mapped =>
        \A j, k \in 1..Len(call.mapped_cols) :
            call.mapped_cols[j] = call.mapped_cols[k] => j = k

\* ------------------------------------------- GeminiService.infer_schema
\* gemini.py line 83
models_to_try == <<"gemini-2.0-flash", "gemini-1.5-flash">>

\* gemini.py line 84
max_retries == 3

\* a markdown fence (three backquotes), bare and with the language tag
Fence == "<fence>"

FenceSql == "<fence>sql"

\* the first token of a line that starts with the fence
Fences == {Fence, FenceSql}

\* line 72: the lines that do not start with a fence
Unfenced(lines) ==
    SelectSeq(lines, LAMBDA l : ~(l # <<>> /\ Head(l) \in Fences))

\* lines 68-74: _clean_ddl
_clean_ddl(ddl) ==
    IF ddl # <<>> /\ Head(ddl) \in Fences
    THEN Strip(JoinLines(Unfenced(Split(ddl, NL))))
    ELSE Strip(ddl)

\* what generate_content can do: answer with the DDL, bare or in a markdown
\* fence, or raise; str(e) of the exception is kept
RateLimit429 == "429 Too Many Requests"

ResourceExhausted == "RESOURCE_EXHAUSTED"

ServerError == "500 Internal Server Error"

Answer(text) == [ok |-> TRUE, text |-> text, error |-> ""]

Failure(e) == [ok |-> FALSE, text |-> <<>>, error |-> e]

Outcomes(ddl) ==
    { Answer(ddl), Answer(<<FenceSql, NL>> \o ddl \o <<Fence, NL>>),
      Failure(RateLimit429), Failure(ResourceExhausted), Failure(ServerError) }

\* line 98: "429" in error_str or "RESOURCE_EXHAUSTED" in error_str
IsRateLimit(error_str) == error_str \in {RateLimit429, ResourceExhausted}

\* line 107
AllFailed == "All Gemini API attempts failed due to rate limiting."

\* the loops of lines 86-87 after a rate-limited call: the next attempt, the
\* next model, or the end of both loops and line 107
Ended(r, pc, result, error) ==
    [r EXCEPT !.pc = pc, !.result = result, !.error = error]

\* a retry loop that makes one attempt too many
NextAttemptOneMore(r) ==
    IF r.attempt + 1 <= max_retries THEN [r EXCEPT !.attempt = @ + 1]
    ELSE IF r.model < Len(models_to_try) THEN [r EXCEPT !.model = @ + 1, !.attempt = 0]
    ELSE Ended(r, "raised", <<>>, AllFailed)

NextAttempt(r) ==
    IF r.attempt + 1 < max_retries THEN [r EXCEPT !.attempt = @ + 1]
    ELSE IF r.model < Len(models_to_try) THEN [r EXCEPT !.model = @ + 1, !.attempt = 0]
    ELSE Ended(r, "raised", <<>>, AllFailed)

\* lines 89-105: one pass of the try statement with outcome o
AfterCall(r, o) ==
    IF o.ok THEN Ended(r, "returned", _clean_ddl(o.text), "")
    ELSE IF IsRateLimit(o.error) THEN NextAttempt(r)
    ELSE Ended(r, "raised", <<>>, o.error)

Called(r, o) ==
    AfterCall([r EXCEPT !.calls = Append(@, [model |-> models_to_try[r.model],
                                             outcome |-> o])], o)

\* infer_schema is entered
InferStart ==
    /\ run.pc = "idle"
    /\ run' = [pc |-> "infer", model |-> 1, attempt |-> 0, calls |-> <<>>,
               result |-> <<>>, error |-> ""]
    /\ UNCHANGED <<schema_text, db, call, held>>

\* client.models.generate_content(model, prompt) and what follows it
GenerateContent ==
    /\ run.pc = "infer"
    /\ \E o \in Outcomes(schema_text) : run' = Called(run, o)
    /\ UNCHANGED <<schema_text, db, call, held>>

\* infer_schema has returned or raised
InferEnd ==
    /\ run.pc \in {"returned", "raised"}
    /\ run' = Idle
    /\ UNCHANGED <<schema_text, db, call, held>>

NextInfer == InferStart \/ GenerateContent \/ InferEnd

SpecInfer == Init /\ [][NextInfer]_vars

\* ---- C28
RateLimited(c) == ~c.outcome.ok /\ c.outcome.error \in {RateLimit429, ResourceExhausted}

LastCall == run.calls[Len(run.calls)]

\* C28: infer_schema makes at most 6 calls, the first three with the first
\* model and the next three with the second; every call but the last was
\* rate-limited; it returns the cleaned text of a successful call, raises the
\* error of a call that failed otherwise, and raises the "all attempts
\* failed" error exactly after six rate-limited calls.
C28_AtMostSixCalls ==
    run.pc \in {"infer", "returned", "raised"} =>
        /\ Len(run.calls) <= 6
        /\ \A k \in 1..Len(run.calls) :
               run.calls[k].model = models_to_try[IF k <= 3 THEN 1 ELSE 2]
        /\ \A k \in 1..(Len(run.calls) - 1) : RateLimited(run.calls[k])
        /\ run.pc = "infer" =>
               Len(run.calls) < 6 /\ \A k \in 1..Len(run.calls) : RateLimited(run.calls[k])
        /\ run.pc = "returned" =>
               /\ LastCall.outcome.ok
               /\ run.result = _clean_ddl(LastCall.outcome.text)
               /\ run.result = Strip(schema_text)
        /\ run.pc = "raised" =>
               \/ /\ ~LastCall.outcome.ok /\ ~RateLimited(LastCall)
                  /\ run.error = LastCall.outcome.error
               \/ /\ Len(run.calls) = 6 /\ RateLimited(LastCall)
                  /\ run.error = AllFailed

\* six rate-limited calls, three for each model, and the final error
C28_Witness ==
    /\ run.pc = "raised" /\ run.error = AllFailed
    /\ Len(run.calls) = 6
    /\ run.calls[3].model = "gemini-2.0-flash"
    /\ run.calls[4].model = "gemini-1.5-flash"

====
